---------------------------- MODULE Spec2Model ----------------------------
(***************************************************************************)
(* Model of google_scholar_crawler/generate_md_from_bibtex.py: the script  *)
(* that reads bib.tex, classifies its entries into four buckets, formats   *)
(* one citation per entry and writes four markdown files.                  *)
(*                                                                         *)
(* A Python str is a sequence of one-character strings, so that split,     *)
(* strip, lower, join and the substring test are computed as Python        *)
(* computes them.  A Python dict is a function from field names to strs.   *)
(***************************************************************************)
EXTENDS Integers, Sequences, FiniteSets, TLC

VARIABLES
    argv,        \* positional arguments handed to main
    bibExists,   \* os.path.exists(bibpath)
    outdirExists,\* whether the output directory exists
    files,       \* content of each of the four output files
    fs0,         \* the file system as it was when main started
    pc,          \* position of main
    rc,          \* what the run ended with
    entries,     \* bibdb.entries
    idx,         \* number of entries the classification loop has consumed
    accepted,    \* the four buckets: each holds references to entries,
    inprocess,   \*   a reference being the entry's position in bibdb.entries
    techreport,
    comms,
    widx,        \* number of write_markdown calls that have returned
    fn_in,       \* argument of the function under test
    fn_out       \* its result

vars == <<argv, bibExists, outdirExists, files, fs0, pc, rc, entries, idx,
          accepted, inprocess, techreport, comms, widx, fn_in, fn_out>>

-----------------------------------------------------------------------------
(* Bounds of the model *)

\* longest bibliography the loader yields
MaxEntries == 2
\* longest author field, in pieces of AuthorPieces
MaxPieces == 4

-----------------------------------------------------------------------------
(* Python values *)

\* None, as returned by dict.get without a default: not a str
None == <<"None">>
\* not yet computed
Undef == <<"Undef">>

\* truth value of an Optional[str]
Truthy(v) == v # None /\ v # <<>>

\* dict.get(key, default)
Get(entry, key, default) == IF key \in DOMAIN entry THEN entry[key] ELSE default

\* the characters str.strip() removes
Whitespace == {" ", "\t", "\n", "\r", "\f"}

UpperChars == <<"A", "B", "C", "D", "E", "F", "G", "H", "I", "J", "K", "L", "M", "N", "O", "P", "Q", "R", "S", "T", "U", "V", "W", "X", "Y", "Z">>
LowerChars == <<"a", "b", "c", "d", "e", "f", "g", "h", "i", "j", "k", "l", "m", "n", "o", "p", "q", "r", "s", "t", "u", "v", "w", "x", "y", "z">>

\* str.lower() of one character
LowerChar(c) ==
    IF \E i \in 1..Len(UpperChars) : UpperChars[i] = c
    THEN LowerChars[CHOOSE i \in 1..Len(UpperChars) : UpperChars[i] = c]
    ELSE c

\* str.lower()
Lower(s) == [i \in 1..Len(s) |-> LowerChar(s[i])]

RECURSIVE LStrip(_)
LStrip(s) ==
    IF s # <<>> /\ Head(s) \in Whitespace THEN LStrip(Tail(s)) ELSE s

RECURSIVE RStrip(_)
RStrip(s) ==
    IF s # <<>> /\ s[Len(s)] \in Whitespace
    THEN RStrip(SubSeq(s, 1, Len(s) - 1))
    ELSE s

\* str.strip()
Strip(s) == RStrip(LStrip(s))

\* needle in s
Contains(needle, s) ==
    \E i \in 0..(Len(s) - Len(needle)) : SubSeq(s, i + 1, i + Len(needle)) = needle

\* s.split(sep): cut at the leftmost occurrences of sep, left to right
RECURSIVE Split(_, _)
Split(s, sep) ==
    IF Contains(sep, s)
    THEN LET i == CHOOSE k \in 0..(Len(s) - Len(sep)) :
                      /\ SubSeq(s, k + 1, k + Len(sep)) = sep
                      /\ \A j \in 0..(k - 1) : SubSeq(s, j + 1, j + Len(sep)) # sep
         IN  <<SubSeq(s, 1, i)>> \o Split(SubSeq(s, i + Len(sep) + 1, Len(s)), sep)
    ELSE <<s>>

\* sep.join(parts)
RECURSIVE Join(_, _)
Join(sep, parts) ==
    IF parts = <<>> THEN <<>>
    ELSE IF Len(parts) = 1 THEN parts[1]
    ELSE parts[1] \o sep \o Join(sep, Tail(parts))

\* [f(x) for x in xs]
NonEmpty(p) == p # <<>>

StripEach(xs) == [i \in 1..Len(xs) |-> Strip(xs[i])]

-----------------------------------------------------------------------------
(* format_authors *)

\* format_authors with the last author joined by " and " whatever the count
format_authors_NoOxford(author_field) ==
    LET parts == SelectSeq(StripEach(Split(author_field, <<" ", "a", "n", "d", " ">>)), NonEmpty)
    IN  IF parts = <<>> THEN <<>>
        ELSE IF Len(parts) = 1 THEN parts[1]
        ELSE Join(<<",", " ">>, SubSeq(parts, 1, Len(parts) - 1))
                 \o <<" ", "a", "n", "d", " ">> \o parts[Len(parts)]

format_authors(author_field) ==
    LET parts == SelectSeq(StripEach(Split(author_field, <<" ", "a", "n", "d", " ">>)), NonEmpty)
    IN  IF parts = <<>> THEN <<>>
        ELSE IF Len(parts) = 1 THEN parts[1]
        ELSE IF Len(parts) = 2 THEN parts[1] \o <<" ", "a", "n", "d", " ">> \o parts[2]
        ELSE Join(<<",", " ">>, SubSeq(parts, 1, Len(parts) - 1))
                 \o <<",", " ", "a", "n", "d", " ">> \o parts[Len(parts)]

-----------------------------------------------------------------------------
(* format_citation *)

\* f"{authors} ({year})" if authors else f"({year})"
AuthorYear(authors, year) ==
    IF authors # <<>>
    THEN authors \o <<" ", "(">> \o year \o <<")">>
    ELSE <<"(">> \o year \o <<")">>

\* Venue with the issue number put before the volume
Venue_NumberFirst(journal, volume, number, pages) ==
    journal
        \o (IF Truthy(number) THEN <<"(">> \o number \o <<")">> ELSE <<>>)
        \o (IF Truthy(volume) THEN <<",", " ">> \o volume ELSE <<>>)
        \o (IF Truthy(pages) THEN <<":", " ">> \o pages ELSE <<>>)

\* the venue of an article with a journal
Venue(journal, volume, number, pages) ==
    journal
        \o (IF Truthy(volume) THEN <<",", " ">> \o volume ELSE <<>>)
        \o (IF Truthy(number) THEN <<"(">> \o number \o <<")">> ELSE <<>>)
        \o (IF Truthy(pages) THEN <<":", " ">> \o pages ELSE <<>>)

\* whether the article branch finds a journal
HasJournal(entry) == Strip(Get(entry, "journal", <<>>)) # <<>>

\* parts of the article branch
ArticleParts(entry, authors, year, title) ==
    LET journal == Strip(Get(entry, "journal", <<>>))
        volume == Get(entry, "volume", None)
        number == Get(entry, "number", None)
        pages == Get(entry, "pages", None)
    IN  <<AuthorYear(authors, year)>>
            \o (IF title # <<>> THEN <<title \o <<".">>>> ELSE <<>>)
            \o (IF HasJournal(entry)
                THEN <<Venue(journal, volume, number, pages) \o <<".">>>>
                ELSE IF Truthy(pages) THEN <<<<"p", "p", ".", " ">> \o pages \o <<".">>>> ELSE <<>>)

\* parts of the inproceedings branch
InproceedingsParts(entry, authors, year, title) ==
    LET book == Strip(Get(entry, "booktitle", Get(entry, "booktitle", <<>>)))
        pages == Get(entry, "pages", None)
    IN  <<AuthorYear(authors, year)>>
            \o (IF title # <<>> THEN <<title \o <<".">>>> ELSE <<>>)
            \o (IF book # <<>> THEN <<<<"I", "n", " ">> \o book \o <<".">>>> ELSE <<>>)
            \o (IF Truthy(pages) THEN <<<<"p", "p", ".", " ">> \o pages \o <<".">>>> ELSE <<>>)

\* parts of the techreport branch
TechreportParts(entry, authors, year, title) ==
    LET institution == Strip(Get(entry, "institution", Get(entry, "institution", <<>>)))
    IN  <<AuthorYear(authors, year)>>
            \o (IF title # <<>> THEN <<title \o <<".">>>> ELSE <<>>)
            \o (IF institution # <<>> THEN <<institution \o <<".">>>> ELSE <<>>)

\* parts of the fallback branch
FallbackParts(entry, authors, year, title) ==
    <<AuthorYear(authors, year)>>
        \o (IF title # <<>> THEN <<title \o <<".">>>> ELSE <<>>)

\* the branch format_citation takes: etype is compared as it is stored
CitationRule(entry) ==
    LET etype == Get(entry, "ENTRYTYPE", <<>>)
    IN  IF etype = <<"a", "r", "t", "i", "c", "l", "e">> THEN "article"
        ELSE IF etype = <<"i", "n", "p", "r", "o", "c", "e", "e", "d", "i", "n", "g", "s">> THEN "inproceedings"
        ELSE IF etype = <<"t", "e", "c", "h", "r", "e", "p", "o", "r", "t">> THEN "techreport"
        ELSE "fallback"

format_citation(entry) ==
    LET authors == format_authors(Get(entry, "author", <<>>))
        year == Get(entry, "year", <<"n", ".", "d", ".">>)
        title == Strip(Get(entry, "title", <<>>))
        rule == CitationRule(entry)
    IN  IF rule = "article"
        THEN Join(<<" ">>, SelectSeq(ArticleParts(entry, authors, year, title), NonEmpty))
        ELSE IF rule = "inproceedings"
        THEN Join(<<" ">>, InproceedingsParts(entry, authors, year, title))
        ELSE IF rule = "techreport"
        THEN Join(<<" ">>, TechreportParts(entry, authors, year, title))
        ELSE Join(<<" ">>, FallbackParts(entry, authors, year, title))

-----------------------------------------------------------------------------
(* entry_is_gauvain_first *)

\* entry_is_gauvain_first without .lower()
entry_is_gauvain_first_NoLower(entry) ==
    LET author_field == Get(entry, "author", <<>>)
    IN  IF author_field = <<>> THEN FALSE
        ELSE Contains(<<"g", "a", "u", "v", "a", "i", "n">>, Split(author_field, <<" ", "a", "n", "d", " ">>)[1])

entry_is_gauvain_first(entry) ==
    LET author_field == Get(entry, "author", <<>>)
    IN  IF author_field = <<>> THEN FALSE
        ELSE Contains(<<"g", "a", "u", "v", "a", "i", "n">>, Lower(Split(author_field, <<" ", "a", "n", "d", " ">>)[1]))

-----------------------------------------------------------------------------
(* write_markdown *)

\* the four output files, in the order main writes them
FileNames == <<"accepted_article.md", "inprocess_article.md", "tech_report.md", "com.md">>

\* the section title main passes for each file
Titles == <<"Accepted articles", "In-process articles", "Technical reports",
            "Communications (Gauvain first author)">>

FileNameSet == {FileNames[k] : k \in 1..Len(FileNames)}

\* a file that does not exist, and one holding what an earlier run left
Absent == <<[kind |-> "absent"]>>
Old == <<[kind |-> "old"]>>

\* header: the two comment lines, then f"## {title}\n\n"
Header(title) == [kind |-> "header", title |-> title]

\* f"{i}. {citation}"
Item(i, citation) == [kind |-> "item", n |-> i, citation |-> citation]

Text(t) == [kind |-> "text", text |-> t]

\* a code fence line: three backquotes, then the language
Fence(lang) == [kind |-> "fence", lang |-> lang]

\* make_bibtex_from_entry(e).strip(): the library's serialisation of e
make_bibtex_from_entry(e) == [kind |-> "bibtex", entry |-> e]

\* enumerate(entries) without start=1
EnumStartZero == 1 - 1

\* first number of enumerate(entries, start=1)
EnumStart == 1

\* the lines one entry adds
EntryLines(i, e) ==
    << Item(i, format_citation(e)),
       Text(""),
       Text("<details>"),
       Text("<summary>BibTeX</summary>\n"),
       Fence("bibtex"),
       make_bibtex_from_entry(e),
       Fence(""),
       Text("</details>\n") >>

RECURSIVE EntriesLines(_, _)
EntriesLines(es, i) ==
    IF es = <<>> THEN <<>>
    ELSE EntryLines(i, Head(es)) \o EntriesLines(Tail(es), i + 1)

\* the list of lines that write_markdown joins with "\n" and writes
write_markdown(es, title) == <<Header(title)>> \o EntriesLines(es, EnumStart)

-----------------------------------------------------------------------------
(* main *)

\* exit status of an uncaught exception: a traceback, and SystemExit is
\* never raised
Fault == 1
\* main has not returned yet
Running == 0 - 1

\* the loop body with the else of the journal test lost: an article with a
\* journal is appended to accepted and to inprocess
BucketsOf_NoElse(entry) ==
    LET etype == Lower(Get(entry, "ENTRYTYPE", <<>>))
    IN  IF etype = <<"a", "r", "t", "i", "c", "l", "e">>
        THEN IF Truthy(Get(entry, "journal", None))
             THEN {"accepted", "inprocess"} ELSE {"inprocess"}
        ELSE IF etype = <<"t", "e", "c", "h", "r", "e", "p", "o", "r", "t">> THEN {"techreport"}
        ELSE IF etype = <<"i", "n", "p", "r", "o", "c", "e", "e", "d", "i", "n", "g", "s">>
        THEN IF entry_is_gauvain_first(entry) THEN {"comms"} ELSE {}
        ELSE {}

\* the loop body testing whether journal is a key of entry instead of entry.get("journal")
BucketsOf_JournalPresent(entry) ==
    LET etype == Lower(Get(entry, "ENTRYTYPE", <<>>))
    IN  IF etype = <<"a", "r", "t", "i", "c", "l", "e">>
        THEN IF "journal" \in DOMAIN entry THEN {"accepted"} ELSE {"inprocess"}
        ELSE IF etype = <<"t", "e", "c", "h", "r", "e", "p", "o", "r", "t">> THEN {"techreport"}
        ELSE IF etype = <<"i", "n", "p", "r", "o", "c", "e", "e", "d", "i", "n", "g", "s">>
        THEN IF entry_is_gauvain_first(entry) THEN {"comms"} ELSE {}
        ELSE {}

\* the buckets the loop body appends an entry to
BucketsOf(entry) ==
    LET etype == Lower(Get(entry, "ENTRYTYPE", <<>>))
    IN  IF etype = <<"a", "r", "t", "i", "c", "l", "e">>
        THEN IF Truthy(Get(entry, "journal", None)) THEN {"accepted"} ELSE {"inprocess"}
        ELSE IF etype = <<"t", "e", "c", "h", "r", "e", "p", "o", "r", "t">> THEN {"techreport"}
        ELSE IF etype = <<"i", "n", "p", "r", "o", "c", "e", "e", "d", "i", "n", "g", "s">>
        THEN IF entry_is_gauvain_first(entry) THEN {"comms"} ELSE {}
        ELSE {}

\* list.append, when the loop body reaches it
AppendIf(bucket, name, entry, ref) ==
    IF name \in BucketsOf(entry) THEN Append(bucket, ref) ELSE bucket

\* the bucket main hands to its k-th write_markdown call
BucketAt(k) ==
    IF k = 1 THEN accepted
    ELSE IF k = 2 THEN inprocess
    ELSE IF k = 3 THEN techreport
    ELSE comms

\* the entries a bucket refers to
Deref(bucket) == [j \in 1..Len(bucket) |-> entries[bucket[j]]]

\* the four write_markdown calls in the opposite order
NextFile_Reversed(k) == Len(FileNames) - k

\* the file main writes after k calls have returned
NextFile(k) == k + 1

\* entry with one more field
With(e, k, v) == (k :> v) @@ e

\* what every entry the parser yields has
Base(t) == [ENTRYTYPE |-> t, ID |-> <<"k">>, year |-> <<"2", "0", "2", "0">>, title |-> <<"T">>]

GauvainFirst == <<"G", "a", "u", "v", "a", "i", "n", ",", " ", "A", ".", " ", "a", "n", "d", " ", "D", "o", "e", ",", " ", "J", ".">>

\* the entries a bibliography is drawn from: both kinds of article with an
\* absent, empty, blank and real journal; entry-type tags in other letter
\* case; inproceedings with no author, with Gauvain first, with Gauvain
\* second, with gauvain in the first author's given name and in capitals;
\* a type that is none of the three
EntryPool ==
    { Base(<<"a", "r", "t", "i", "c", "l", "e">>),
      With(Base(<<"a", "r", "t", "i", "c", "l", "e">>), "journal", <<>>),
      With(Base(<<"a", "r", "t", "i", "c", "l", "e">>), "journal", <<" ">>),
      With(With(Base(<<"a", "r", "t", "i", "c", "l", "e">>), "journal", <<"J">>), "author", <<"D", "o", "e", ",", " ", "J", ".">>),
      With(Base(<<"A", "r", "t", "i", "c", "l", "e">>), "journal", <<"J">>),
      With(With(Base(<<"t", "e", "c", "h", "r", "e", "p", "o", "r", "t">>), "journal", <<"J">>), "author", GauvainFirst),
      Base(<<"i", "n", "p", "r", "o", "c", "e", "e", "d", "i", "n", "g", "s">>),
      With(Base(<<"i", "n", "p", "r", "o", "c", "e", "e", "d", "i", "n", "g", "s">>), "author", GauvainFirst),
      With(Base(<<"i", "n", "p", "r", "o", "c", "e", "e", "d", "i", "n", "g", "s">>), "author", <<"D", "o", "e", ",", " ", "J", ".", " ", "a", "n", "d", " ", "G", "a", "u", "v", "a", "i", "n", ",", " ", "A", ".">>),
      With(Base(<<"i", "n", "p", "r", "o", "c", "e", "e", "d", "i", "n", "g", "s">>), "author", <<"S", "m", "i", "t", "h", ",", " ", "G", "a", "u", "v", "a", "i", "n", " ", "a", "n", "d", " ", "D", "o", "e", ",", " ", "J", ".">>),
      With(With(Base(<<"i", "n", "p", "r", "o", "c", "e", "e", "d", "i", "n", "g", "s">>), "author", <<"A", ".", " ", "G", "A", "U", "V", "A", "I", "N">>), "journal", <<"J">>),
      With(Base(<<"I", "n", "P", "r", "o", "c", "e", "e", "d", "i", "n", "g", "s">>), "author", GauvainFirst),
      With(With(Base(<<"b", "o", "o", "k">>), "journal", <<"J">>), "author", GauvainFirst) }

RECURSIVE SeqsUpTo(_, _)
SeqsUpTo(S, n) ==
    IF n = 0 THEN {<<>>}
    ELSE LET shorter == SeqsUpTo(S, n - 1)
         IN  shorter \cup {Append(s, x) : s \in shorter, x \in S}

\* the bibliographies the loader can yield: bibtexparser is a library, so
\* the entries are any dicts of strs, in any letter case and with any blanks
EntrySeqs == SeqsUpTo(EntryPool, MaxEntries)

\* main with ensure_dir(outdir) moved above the test for bib.tex
CheckBib_EnsureDirFirst ==
    /\ pc = "start"
    /\ outdirExists' = TRUE
    /\ \/ /\ ~bibExists
          /\ rc' = 2
          /\ pc' = "done"
       \/ /\ bibExists
          /\ pc' = "load"
          /\ UNCHANGED rc
    /\ UNCHANGED <<argv, bibExists, files, fs0, entries, idx,
                   accepted, inprocess, techreport, comms, widx, fn_in, fn_out>>

\* bib.tex is missing: print and return 2;
\* otherwise ensure_dir(outdir), which may raise
CheckBib ==
    /\ pc = "start"
    /\ \/ /\ ~bibExists
          /\ rc' = 2
          /\ pc' = "done"
          /\ UNCHANGED outdirExists
       \/ /\ bibExists
          /\ outdirExists' = TRUE
          /\ pc' = "load"
          /\ UNCHANGED rc
       \/ /\ bibExists
          /\ ~outdirExists
          /\ rc' = Fault
          /\ pc' = "done"
          /\ UNCHANGED outdirExists
    /\ UNCHANGED <<argv, bibExists, files, fs0, entries, idx,
                   accepted, inprocess, techreport, comms, widx, fn_in, fn_out>>

\* bibtexparser.load and convert_to_unicode: the library yields the entries
\* of the file, or raises; then the four buckets start empty
Load ==
    /\ pc = "load"
    /\ \/ /\ \E es \in EntrySeqs :
                /\ entries' = es
                /\ pc' = IF es = <<>> THEN "write" ELSE "classify"
          /\ UNCHANGED rc
       \/ /\ rc' = Fault
          /\ pc' = "done"
          /\ UNCHANGED entries
    /\ idx' = 0
    /\ accepted' = <<>>
    /\ inprocess' = <<>>
    /\ techreport' = <<>>
    /\ comms' = <<>>
    /\ UNCHANGED <<argv, bibExists, outdirExists, files, fs0, widx, fn_in, fn_out>>

\* one iteration of the loop over bibdb.entries
ClassifyStep ==
    /\ pc = "classify"
    /\ idx < Len(entries)
    /\ LET ref == idx + 1
           entry == entries[ref]
       IN  /\ accepted' = AppendIf(accepted, "accepted", entry, ref)
           /\ inprocess' = AppendIf(inprocess, "inprocess", entry, ref)
           /\ techreport' = AppendIf(techreport, "techreport", entry, ref)
           /\ comms' = AppendIf(comms, "comms", entry, ref)
           /\ idx' = ref
           /\ pc' = IF ref = Len(entries) THEN "write" ELSE "classify"
    /\ UNCHANGED <<argv, bibExists, outdirExists, files, fs0, rc, entries,
                   widx, fn_in, fn_out>>

\* one write_markdown call: the file is overwritten, or open/write raises
\* (leaving the file as it was, or truncated) and main ends with the
\* exception; after the fourth call main prints the summary and returns 0
WriteStep ==
    /\ pc = "write"
    /\ widx < Len(FileNames)
    /\ LET k == NextFile(widx)
           content == write_markdown(Deref(BucketAt(k)), Titles[k])
       IN  \/ /\ files' = [files EXCEPT ![FileNames[k]] = content]
              /\ widx' = widx + 1
              /\ pc' = IF widx + 1 = Len(FileNames) THEN "done" ELSE "write"
              /\ rc' = IF widx + 1 = Len(FileNames) THEN 0 ELSE rc
           \/ /\ \/ files' = files
                 \/ files' = [files EXCEPT ![FileNames[k]] = <<>>]
              /\ pc' = "done"
              /\ rc' = Fault
              /\ UNCHANGED widx
    /\ UNCHANGED <<argv, bibExists, outdirExists, fs0, entries, idx,
                   accepted, inprocess, techreport, comms, fn_in, fn_out>>

\* the command lines: [bib_path] [output_dir]
ArgvChoices == {<<"prog">>, <<"prog", "other.bib", "elsewhere">>}

\* the file systems main starts in
InitialFs ==
    { [outdir |-> FALSE, files |-> [f \in FileNameSet |-> Absent]],
      [outdir |-> TRUE, files |-> [f \in FileNameSet |-> Old]] }

Init ==
    /\ argv \in ArgvChoices
    /\ bibExists \in BOOLEAN
    /\ fs0 \in InitialFs
    /\ outdirExists = fs0.outdir
    /\ files = fs0.files
    /\ pc = "start"
    /\ rc = Running
    /\ entries = <<>>
    /\ idx = 0
    /\ accepted = <<>>
    /\ inprocess = <<>>
    /\ techreport = <<>>
    /\ comms = <<>>
    /\ widx = 0
    /\ fn_in = Undef
    /\ fn_out = Undef

Next == CheckBib \/ Load \/ ClassifyStep \/ WriteStep

Spec == Init /\ [][Next]_vars

-----------------------------------------------------------------------------
(* format_authors on its own *)

\* what an author field is made of
AuthorPieces == {<<"A", " ", "a", "n", "d", " ">>, <<"B", " ", "a", "n", "d", " ">>, <<"C">>, <<" ">>, <<" ", "a", "n", "d", " ">>, <<"a", "n", "d">>}

RECURSIVE Concat(_)
Concat(ps) == IF ps = <<>> THEN <<>> ELSE Head(ps) \o Concat(Tail(ps))

\* the author fields format_authors is called with
AuthorFields == {Concat(ps) : ps \in SeqsUpTo(AuthorPieces, MaxPieces)}

\* everything main owns, at rest
MainIdle ==
    /\ argv = <<"prog">>
    /\ bibExists = TRUE
    /\ fs0 = [outdir |-> FALSE, files |-> [f \in FileNameSet |-> Absent]]
    /\ outdirExists = fs0.outdir
    /\ files = fs0.files
    /\ rc = Running
    /\ entries = <<>>
    /\ idx = 0
    /\ accepted = <<>>
    /\ inprocess = <<>>
    /\ techreport = <<>>
    /\ comms = <<>>
    /\ widx = 0

InitAuthors ==
    /\ MainIdle
    /\ pc = "call"
    /\ fn_in \in AuthorFields
    /\ fn_out = Undef

CallFormatAuthors ==
    /\ pc = "call"
    /\ fn_out' = format_authors(fn_in)
    /\ pc' = "return"
    /\ UNCHANGED <<argv, bibExists, outdirExists, files, fs0, rc, entries, idx,
                   accepted, inprocess, techreport, comms, widx, fn_in>>

NextAuthors == CallFormatAuthors

SpecAuthors == InitAuthors /\ [][NextAuthors]_vars

-----------------------------------------------------------------------------
(* format_citation on its own *)

\* entry with one more field, unless the value is None
Opt(e, k, v) == IF v = None THEN e ELSE With(e, k, v)

\* articles: every field the article branch reads, absent, empty, padded
\* with blanks and plain
ArticleEntries ==
    { Opt(Opt(Opt(Opt(Opt(Opt(Opt([ENTRYTYPE |-> <<"a", "r", "t", "i", "c", "l", "e">>, ID |-> <<"k", "1">>],
        "author", a), "year", y), "title", t), "journal", j),
        "volume", v), "number", n), "pages", p) :
        a \in {None, <<"D", "o", "e", ",", " ", "J", ".">>, <<"A", " ", "a", "n", "d", " ", "B">>},
        y \in {None, <<"2", "0", "2", "0">>},
        t \in {None, <<"T">>, <<" ", "T", " ">>, <<" ">>},
        j \in {None, <<>>, <<" ">>, <<"J">>, <<"J", " ">>},
        v \in {None, <<>>, <<"1">>},
        n \in {None, <<"2">>},
        p \in {None, <<>>, <<"3", "-", "4">>} }

\* entries of the other types, with the fields their branches read
OtherEntries ==
    { Opt(Opt(Opt(Opt(Opt(Opt([ENTRYTYPE |-> ty, ID |-> <<"k", "1">>],
        "author", a), "year", y), "title", t), "booktitle", b),
        "institution", i), "pages", p) :
        ty \in {<<"i", "n", "p", "r", "o", "c", "e", "e", "d", "i", "n", "g", "s">>, <<"t", "e", "c", "h", "r", "e", "p", "o", "r", "t">>, <<"m", "i", "s", "c">>},
        a \in {None, <<"D", "o", "e", ",", " ", "J", ".">>},
        y \in {None, <<"2", "0", "2", "0">>},
        t \in {None, <<"T">>},
        b \in {None, <<"B">>},
        i \in {None, <<"I">>},
        p \in {None, <<"3", "-", "4">>} }

CitationEntries == ArticleEntries \cup OtherEntries

InitCitation ==
    /\ MainIdle
    /\ pc = "call"
    /\ fn_in \in CitationEntries
    /\ fn_out = Undef

CallFormatCitation ==
    /\ pc = "call"
    /\ fn_out' = format_citation(fn_in)
    /\ pc' = "return"
    /\ UNCHANGED <<argv, bibExists, outdirExists, files, fs0, rc, entries, idx,
                   accepted, inprocess, techreport, comms, widx, fn_in>>

NextCitation == CallFormatCitation

SpecCitation == InitCitation /\ [][NextCitation]_vars

-----------------------------------------------------------------------------
(* Properties of the classifier *)

\* the entry type of a record: BibTeX entry types are case-insensitive
KindOf(e) == Lower(Get(e, "ENTRYTYPE", <<>>))

KnownKinds == {<<"a", "r", "t", "i", "c", "l", "e">>, <<"t", "e", "c", "h", "r", "e", "p", "o", "r", "t">>, <<"i", "n", "p", "r", "o", "c", "e", "e", "d", "i", "n", "g", "s">>}

InBucket(bucket, ref) == \E j \in 1..Len(bucket) : bucket[j] = ref

Count(bucket, ref) == Cardinality({j \in 1..Len(bucket) : bucket[j] = ref})

\* how many times a record sits in the four buckets together
Occurrences(ref) ==
    Count(accepted, ref) + Count(inprocess, ref)
        + Count(techreport, ref) + Count(comms, ref)

\* the classification loop has run to its end
AfterLoop == pc \in {"write", "done"} /\ idx = Len(entries)

Refs == 1..Len(entries)

\* C1: after the classification loop no record is in more than one of the
\* four buckets, and a record whose entry type is none of article,
\* techreport and inproceedings is in none of them.
C1_BucketsDisjoint ==
    AfterLoop =>
        \A ref \in Refs :
            /\ Occurrences(ref) <= 1
            /\ KindOf(entries[ref]) \notin KnownKinds => Occurrences(ref) = 0

\* a bibliography with a record of an unknown type, dropped, beside a
\* record that was put in a bucket
C1_Witness ==
    /\ AfterLoop
    /\ \E r1, r2 \in Refs :
          /\ KindOf(entries[r1]) = <<"b", "o", "o", "k">>
          /\ Occurrences(r1) = 0
          /\ Occurrences(r2) = 1

\* C2: after the loop every article is in exactly one of accepted and
\* inprocess and in no other bucket: in accepted iff its journal field is
\* present and non-empty, in inprocess iff journal is absent or empty.
C2_ArticleByJournal ==
    AfterLoop =>
        \A ref \in Refs :
            KindOf(entries[ref]) = <<"a", "r", "t", "i", "c", "l", "e">> =>
                LET hasJournal == /\ "journal" \in DOMAIN entries[ref]
                                  /\ entries[ref]["journal"] # <<>>
                IN  /\ InBucket(accepted, ref) <=> hasJournal
                    /\ InBucket(inprocess, ref) <=> ~hasJournal
                    /\ Occurrences(ref) = 1

\* an article with an empty journal in inprocess beside an article with a
\* journal in accepted
C2_Witness ==
    /\ AfterLoop
    /\ \E r1, r2 \in Refs :
          /\ KindOf(entries[r1]) = <<"a", "r", "t", "i", "c", "l", "e">>
          /\ Get(entries[r1], "journal", None) = <<>>
          /\ InBucket(inprocess, r1)
          /\ KindOf(entries[r2]) = <<"a", "r", "t", "i", "c", "l", "e">>
          /\ Get(entries[r2], "journal", None) = <<"J">>
          /\ InBucket(accepted, r2)

\* the first token of the author field split on " and "
FirstAuthorToken(e) == Split(Get(e, "author", <<>>), <<" ", "a", "n", "d", " ">>)[1]

\* C3: after the loop an inproceedings record is in comms iff the first
\* token of its author field split on " and " contains "gauvain" whatever
\* the letter case; one that does not match, or has no author field, is in
\* no bucket.
C3_CommsByFirstToken ==
    AfterLoop =>
        \A ref \in Refs :
            KindOf(entries[ref]) = <<"i", "n", "p", "r", "o", "c", "e", "e", "d", "i", "n", "g", "s">> =>
                LET match == Contains(<<"g", "a", "u", "v", "a", "i", "n">>, Lower(FirstAuthorToken(entries[ref])))
                IN  /\ InBucket(comms, ref) <=> match
                    /\ Occurrences(ref) = IF match THEN 1 ELSE 0

\* an inproceedings record whose first author is written in capitals, in
\* comms, beside one with no author field, dropped
C3_Witness ==
    /\ AfterLoop
    /\ \E r1, r2 \in Refs :
          /\ KindOf(entries[r1]) = <<"i", "n", "p", "r", "o", "c", "e", "e", "d", "i", "n", "g", "s">>
          /\ Get(entries[r1], "author", None) = <<"A", ".", " ", "G", "A", "U", "V", "A", "I", "N">>
          /\ InBucket(comms, r1)
          /\ KindOf(entries[r2]) = <<"i", "n", "p", "r", "o", "c", "e", "e", "d", "i", "n", "g", "s">>
          /\ "author" \notin DOMAIN entries[r2]
          /\ Occurrences(r2) = 0

\* the surname of a BibTeX name: what precedes the comma of "Last, First",
\* else the last word of "First Last"
Surname(name) ==
    IF Contains(<<",">>, name) THEN Strip(Split(name, <<",">>)[1])
    ELSE LET words == SelectSeq(Split(Strip(name), <<" ">>), NonEmpty)
         IN  IF words = <<>> THEN <<>> ELSE words[Len(words)]

\* C4: after the loop comms holds exactly the inproceedings records whose
\* first listed author's surname is Gauvain; a record whose first author has
\* another surname, with gauvain elsewhere in the name, is not in comms.
C4_CommsBySurname ==
    AfterLoop =>
        \A ref \in Refs :
            InBucket(comms, ref) <=>
                /\ KindOf(entries[ref]) = <<"i", "n", "p", "r", "o", "c", "e", "e", "d", "i", "n", "g", "s">>
                /\ Lower(Surname(FirstAuthorToken(entries[ref]))) = <<"g", "a", "u", "v", "a", "i", "n">>

\* C10: after the loop the formatter renders every record of a bucket by
\* the rule of that bucket: accepted by the article rule with a venue
\* segment, inprocess by the article rule without one, techreport by the
\* techreport rule, comms by the inproceedings rule.
C10_ClassifierFormatterAgree ==
    AfterLoop =>
        \A ref \in Refs :
            /\ InBucket(accepted, ref) =>
                  CitationRule(entries[ref]) = "article" /\ HasJournal(entries[ref])
            /\ InBucket(inprocess, ref) =>
                  CitationRule(entries[ref]) = "article" /\ ~HasJournal(entries[ref])
            /\ InBucket(techreport, ref) => CitationRule(entries[ref]) = "techreport"
            /\ InBucket(comms, ref) => CitationRule(entries[ref]) = "inproceedings"

-----------------------------------------------------------------------------
(* Properties of the formatter *)

\* the trimmed, non-empty tokens of an author field
AuthorTokens(field) == SelectSeq(StripEach(Split(field, <<" ", "a", "n", "d", " ">>)), NonEmpty)

\* "A, B, ..., and Z" for one token or more, built from the left
RECURSIVE OxfordTail(_)
OxfordTail(ts) ==
    IF Len(ts) = 1 THEN <<"a", "n", "d", " ">> \o ts[1]
    ELSE ts[1] \o <<",", " ">> \o OxfordTail(Tail(ts))

ExpectedAuthors(ts) ==
    IF Len(ts) = 0 THEN <<>>
    ELSE IF Len(ts) = 1 THEN ts[1]
    ELSE IF Len(ts) = 2 THEN ts[1] \o <<" ", "a", "n", "d", " ">> \o ts[2]
    ELSE OxfordTail(ts)

\* C5: format_authors returns the empty string for no token, the token for
\* one, "A and B" for two, and for three or more every token but the last
\* joined by ", ", then ", and " and the last; the tokens being those of the
\* field split on " and ", trimmed, the empty ones dropped.
C5_FormatAuthors ==
    pc = "return" =>
        /\ fn_out = ExpectedAuthors(AuthorTokens(fn_in))
        /\ fn_in = <<"C">> => fn_out = <<"C">>
        /\ fn_in = <<"A", " ", "a", "n", "d", " ", "C">> => fn_out = <<"A", " ", "a", "n", "d", " ", "C">>
        /\ fn_in = <<"A", " ", "a", "n", "d", " ", "B", " ", "a", "n", "d", " ", "C">> => fn_out = <<"A", ",", " ", "B", ",", " ", "a", "n", "d", " ", "C">>

\* three authors, the last of them padded with a blank
C5_Witness ==
    /\ pc = "return"
    /\ fn_in = <<"A", " ", "a", "n", "d", " ", "B", " ", "a", "n", "d", " ", "C", " ">>
    /\ fn_out = <<"A", ",", " ", "B", ",", " ", "a", "n", "d", " ", "C">>

\* whether a field is there with something in it
Present(e, k) == k \in DOMAIN e /\ e[k] # <<>>

\* the segments of an article's citation, given its title and journal
ArticleSegments(e, title, journal) ==
    LET authors == format_authors(IF "author" \in DOMAIN e THEN e["author"] ELSE <<>>)
        year == IF "year" \in DOMAIN e THEN e["year"] ELSE <<"n", ".", "d", ".">>
        head == IF authors = <<>> THEN <<"(">> \o year \o <<")">>
                ELSE authors \o <<" ", "(">> \o year \o <<")">>
        vol == IF Present(e, "volume") THEN <<",", " ">> \o e["volume"] ELSE <<>>
        num == IF Present(e, "number") THEN <<"(">> \o e["number"] \o <<")">> ELSE <<>>
        pgs == IF Present(e, "pages") THEN <<":", " ">> \o e["pages"] ELSE <<>>
    IN  <<head>>
            \o (IF title # <<>> THEN <<title \o <<".">>>> ELSE <<>>)
            \o (IF journal # <<>> THEN <<journal \o vol \o num \o pgs \o <<".">>>>
                ELSE IF Present(e, "pages") THEN <<<<"p", "p", ".", " ">> \o e["pages"] \o <<".">>>>
                ELSE <<>>)

RECURSIVE SpaceJoined(_)
SpaceJoined(segs) ==
    IF segs = <<>> THEN <<>>
    ELSE IF Tail(segs) = <<>> THEN Head(segs)
    ELSE Head(segs) \o <<" ">> \o SpaceJoined(Tail(segs))

\* a field's value, the empty string when the field is missing
ValueOf(e, k) == IF k \in DOMAIN e THEN e[k] ELSE <<>>

DoeArticle ==
    [ENTRYTYPE |-> <<"a", "r", "t", "i", "c", "l", "e">>, ID |-> <<"k", "1">>, author |-> <<"D", "o", "e", ",", " ", "J", ".">>,
     year |-> <<"2", "0", "2", "0">>, title |-> <<"T">>, journal |-> <<"J">>]

\* C6, as stated: the citation of an article is its segments joined by
\* single spaces, the title and the journal written as the record holds them.
C6_AsStated ==
    pc = "return" /\ fn_in["ENTRYTYPE"] = <<"a", "r", "t", "i", "c", "l", "e">> =>
        fn_out = SpaceJoined(ArticleSegments(fn_in, ValueOf(fn_in, "title"),
                                             ValueOf(fn_in, "journal")))

\* C6, amended: the citation of an article is its segments joined by single
\* spaces, the title and the journal trimmed of surrounding whitespace and
\* taken as present only when something is left; the record of Doe renders
\* as "Doe, J. (2020) T. J.".
C6_ArticleCitation ==
    pc = "return" /\ fn_in["ENTRYTYPE"] = <<"a", "r", "t", "i", "c", "l", "e">> =>
        /\ fn_out = SpaceJoined(ArticleSegments(fn_in, Strip(ValueOf(fn_in, "title")),
                                                Strip(ValueOf(fn_in, "journal"))))
        /\ fn_in = DoeArticle => fn_out = <<"D", "o", "e", ",", " ", "J", ".", " ", "(", "2", "0", "2", "0", ")", " ", "T", ".", " ", "J", ".">>

\* an article with every venue field, its title and journal padded with
\* blanks and its year missing
C6_Witness ==
    /\ pc = "return"
    /\ fn_in = [ENTRYTYPE |-> <<"a", "r", "t", "i", "c", "l", "e">>, ID |-> <<"k", "1">>, author |-> <<"A", " ", "a", "n", "d", " ", "B">>,
                title |-> <<" ", "T", " ">>, journal |-> <<"J", " ">>, volume |-> <<"1">>,
                number |-> <<"2">>, pages |-> <<"3", "-", "4">>]
    /\ fn_out = <<"A", " ", "a", "n", "d", " ", "B", " ", "(", "n", ".", "d", ".", ")", " ", "T", ".", " ", "J", ",", " ", "1", "(", "2", ")", ":", " ", "3", "-", "4", ".">>

-----------------------------------------------------------------------------
(* Properties of the run *)

IsItem(line) == line.kind = "item"

IsBibtex(line) == line.kind = "bibtex"

\* C7: when a run that found bib.tex ends with 0, each of the four files
\* starts with its header and title and holds one numbered item per record
\* of its bucket, numbered 1..n in the order of the records in the source;
\* the file of an empty bucket is its header and title alone.
C7_FilesHoldBuckets ==
    pc = "done" /\ rc = 0 =>
        \A k \in 1..Len(FileNames) :
            LET content == files[FileNames[k]]
                bucket == BucketAt(k)
                items == SelectSeq(content, IsItem)
                blocks == SelectSeq(content, IsBibtex)
            IN  /\ Len(content) >= 1
                /\ content[1] = Header(Titles[k])
                /\ Len(items) = Len(bucket)
                /\ Len(blocks) = Len(bucket)
                /\ \A j \in 1..Len(bucket) :
                      /\ items[j].n = j
                      /\ items[j].citation = format_citation(entries[bucket[j]])
                      /\ blocks[j].entry = entries[bucket[j]]
                      /\ j < Len(bucket) => bucket[j] < bucket[j + 1]
                /\ bucket = <<>> => content = <<Header(Titles[k])>>

\* a finished run with two records in one bucket and none in another
C7_Witness ==
    /\ pc = "done"
    /\ rc = 0
    /\ Len(accepted) = 2
    /\ comms = <<>>
    /\ files["com.md"] = <<Header("Communications (Gauvain first author)")>>

C9_WriteOrder ==
    /\ \A k \in 1..Len(FileNames) :
          /\ k <= widx =>
                files[FileNames[k]] = write_markdown(Deref(BucketAt(k)), Titles[k])
          /\ k > widx + 1 => files[FileNames[k]] = fs0.files[FileNames[k]]
          /\ k = widx + 1 /\ rc # Fault => files[FileNames[k]] = fs0.files[FileNames[k]]
    /\ pc = "done" /\ widx < Len(FileNames) => rc # 0

\* the third write failed after truncating its file: the first two files
\* hold their new content and the fourth is as it was
C9_Witness ==
    /\ pc = "done"
    /\ rc = Fault
    /\ widx = 2
    /\ entries # <<>>
    /\ files[FileNames[3]] = <<>>
    /\ files[FileNames[1]] = write_markdown(Deref(accepted), Titles[1])
    /\ files[FileNames[4]] = Old

=============================================================================
